---- MODULE Spec2Model ----
(***************************************************************************)
(* IRS - image rename & split.  A model of src/src/main.rs:                *)
(*   - process_images_sync: the chunked, threaded export job (Spec, and    *)
(*     FairSpec with its threads scheduled)                                *)
(*   - process_single_image: the split geometry (SpecSplit)                *)
(*   - set_jpeg_dpi: the JFIF APP0 density patcher (SpecDpi)               *)
(*   - save_with_dpi: encode, patch, write (SpecSave)                      *)
(*   - encode_to_base64: the thumbnail encoder (SpecB64)                   *)
(*   - App, Controls, ImageCard: the signals and their handlers (SpecUi)   *)
(***************************************************************************)
EXTENDS Integers, Sequences, FiniteSets, Bags, TLC

\* ---- bounds of the model ------------------------------------------------
MaxImages == 5
MaxWidth == 8
MaxHeight == 4
MaxSegs == 3
MaxCalls == 2
MaxBytes == 4
MaxFiles == 3
MaxFairFiles == 2
MaxTimers == 2

\* ---- program constants --------------------------------------------------
chunk_size == 3
xFF == 255
xD8 == 216
xDA == 218
xE0 == 224

VARIABLES
  images,      \* process_images_sync: the job's item list (images_arc)
  dir,         \* the SPL directory: "absent", "created", or "failed" to create
  fate,        \* environment: what happens when the file at a path is split
  spc,         \* position of the thread running process_images_sync
  pos,         \* number of items the chunks() iterator has handed out
  image_num,   \* the scheduler's running sequence number
  workers,     \* one record per spawned thread (handles, with each closure's state)
  queue,       \* the mpsc channel: tokens sent and not yet received
  senders,     \* live Sender handles of the channel
  results,     \* _results: tokens received by the drain loop
  joined,      \* number of handles joined so far
  files,       \* the SPL directory: files written, with who wrote them
  writes,      \* bag of file names: one copy per std::fs::write
  attempts,    \* per item id: calls of process_single_image
  result,      \* the value process_images_sync returned
  source,      \* process_single_image: dimensions of the decoded source image
  s_pc,        \* process_single_image: position in the function
  width, height, half_width,  \* process_single_image: its locals
  left_half, right_half,      \* process_single_image: dimensions of the crops
  buf,         \* set_jpeg_dpi: the JPEG byte buffer
  orig,        \* the buffer as it was when set_jpeg_dpi was last called
  dpi,         \* the dpi argument of the last call
  ret,         \* what the last call returned: "none", "ok", "err"
  calls,       \* number of calls of set_jpeg_dpi on the buffer
  nsegs,       \* number of pieces the buffer was built from
  jpg_buf,     \* save_with_dpi: the in-memory JPEG buffer
  encoded,     \* the bytes the encoder left in jpg_buf
  save_pc,     \* save_with_dpi: position in the function
  save_ret,    \* what save_with_dpi returned: "none", "ok", "err"
  out_file,    \* the file at path: NoFile or the one content written
  data,        \* encode_to_base64: the bytes to encode
  consumed,    \* bytes the chunks(3) iterator has handed out
  b64_result,  \* the String being built, one character per element
  b64_ret,     \* what encode_to_base64 returned: "none" or "ok"
  ui_images,   \* App: the images signal, the ordered collection
  folder_path, \* App: the folder_path signal
  processing,  \* App: the processing signal
  notification,  \* App: the notification signal
  loading_files, \* App: the loading_files signal
  drag_source, \* App: the drag_source signal
  drag_over_id,  \* App: the drag_over_id signal
  timers,      \* tasks of show_notification sleeping their 3 seconds
  load_pc,     \* open_files: position of its async task
  file_paths,  \* open_files: the paths picked in the dialog
  image_items, \* open_files: what the blocking task returned
  export_pc,   \* rename_split: position of its async task
  imgs_snap,   \* rename_split: imgs, the clone of images taken in the handler
  imgs_for_bg, \* rename_split: the list moved into process_images_sync
  last_loaded, \* history: the items of the last load that set images
  at_click     \* history: images when RENAME & SPLIT was last clicked

jobVars == <<images, dir, fate, spc, pos, image_num, workers, queue, senders,
             results, joined, files, writes, attempts, result>>

splitVars == <<source, s_pc, width, height, half_width, left_half, right_half>>

dpiVars == <<buf, orig, dpi, ret, calls, nsegs>>

saveVars == <<jpg_buf, encoded, save_pc, save_ret, out_file>>

b64Vars == <<data, consumed, b64_result, b64_ret>>

uiVars == <<ui_images, folder_path, processing, notification, loading_files,
            drag_source, drag_over_id, timers, load_pc, file_paths, image_items,
            export_pc, imgs_snap, imgs_for_bg, last_loaded, at_click>>

vars == <<jobVars, splitVars, dpiVars, saveVars, b64Vars, uiVars>>

Min(a, b) == IF a < b THEN a ELSE b

\* ---- data ---------------------------------------------------------------
\* struct ImageItem (thumbnail_base64 plays no part in the export)
ImageItem(id, path) == [id |-> id, path |-> path]

\* What process_single_image does with the file at a path: "ok", or where it
\* returns Err.
\*   "left"  image::open fails, or save_with_dpi of the left half fails
\*           (encode, set_jpeg_dpi or std::fs::write): no file is written
\*   "right" save_with_dpi of the right half fails: the left file stays
Fates == {"ok", "left", "right"}

RECURSIVE Digits(_)
Digits(n) == IF n < 10 THEN <<n>> ELSE Digits(n \div 10) \o <<n % 10>>

\* pad_number: format!("{:02}", num), as a sequence of decimal digits
pad_number(num) == IF num < 10 THEN <<0, num>> ELSE Digits(num)

\* the output path spl_folder.join(format!("{}_{}.jpg", pad_number(n), half))
FileName(sequence_num, half) == <<pad_number(sequence_num), "_", half, ".jpg">>

\* ---- the scheduler's arithmetic ----------------------------------------
\* images_arc.chunks(chunk_size): the next chunk, after `p` items were handed out
NextChunk(imgs, p) == SubSeq(imgs, p + 1, Min(p + chunk_size, Len(imgs)))

\* a bug: every chunk starts numbering at 1
StartNumFromOne(num) == 1

\* let start_num = image_num;
StartNum(num) == num

\* a bug: image_num += 1 per chunk
AdvanceByOne(num, chunk_len) == num + 1

\* image_num += chunk_len;
AdvanceImageNum(num, chunk_len) == num + chunk_len

\* a bug: 1-based idx added to a 1-based start
CurrentNumOffByOne(start_num, idx) == start_num + idx + 1

\* let current_num = start_num + idx;
CurrentNum(start_num, idx) == start_num + idx

\* a bug: count only the items whose source file splits
CountSucceeded(imgs) ==
  Cardinality({p \in 1..Len(imgs) : fate[imgs[p].path] = "ok"})

\* Ok(total_images)
TotalImages(imgs) == Len(imgs)

\* a bug: stop draining as soon as the queue is empty (try_iter)
QueueEmpty(q, s) == q = <<>>

\* rx.iter() ends when the queue is empty and every Sender is dropped
ChannelClosed(q, s) == q = <<>> /\ s = 0

\* a bug: the closure returns at the first Err (a `?` in the loop)
StopOnErr(w) == "exit"

\* where the thread's closure goes after an item whose split returned Err
AfterErr(w) == "send"

\* a bug: the Err of create_dir_all is ignored
IgnoreMkdirErr == "spawn"

\* where the scheduler goes when create_dir_all fails
AfterMkdirErr == "done"

\* ---- initial states -----------------------------------------------------
\* the failure patterns explored: none fails, all fail alike, or one fails
FatePatterns(n) ==
  {[p \in 1..n |-> "ok"]}
  \cup {[p \in 1..n |-> f] : f \in Fates \ {"ok"}}
  \cup {[p \in 1..n |-> IF p = k THEN f ELSE "ok"] :
          k \in 1..n, f \in Fates \ {"ok"}}

JobStart(n) ==
  /\ images = [p \in 1..n |-> ImageItem(p - 1, p)]
  /\ fate \in FatePatterns(n)
  /\ attempts = [i \in 0..(n - 1) |-> 0]
  /\ dir = "absent"
  /\ spc = "mkdir"
  /\ pos = 0
  /\ image_num = 0
  /\ workers = <<>>
  /\ queue = <<>>
  /\ senders = 0
  /\ results = <<>>
  /\ joined = 0
  /\ files = {}
  /\ writes = EmptyBag
  /\ result = [kind |-> "none"]

\* ---- process_images_sync: the scheduler thread --------------------------
\* create_dir_all succeeds; the channel and the counters are set up
CreateDirOk ==
  /\ UNCHANGED <<splitVars, dpiVars, saveVars, b64Vars, uiVars>>
  /\ spc = "mkdir"
  /\ dir' = "created"
  /\ spc' = "spawn"
  /\ senders' = 1
  /\ image_num' = 1
  /\ UNCHANGED <<images, fate, pos, workers, queue, results, joined, files,
                 writes, attempts, result>>

\* create_dir_all fails: return Err(...)
CreateDirErr ==
  /\ UNCHANGED <<splitVars, dpiVars, saveVars, b64Vars, uiVars>>
  /\ spc = "mkdir"
  /\ dir' = "failed"
  /\ spc' = AfterMkdirErr
  /\ result' = [kind |-> "err"]
  /\ senders' = IF AfterMkdirErr = "done" THEN senders ELSE 1
  /\ image_num' = IF AfterMkdirErr = "done" THEN image_num ELSE 1
  /\ UNCHANGED <<images, fate, pos, workers, queue, results, joined, files,
                 writes, attempts>>

\* one iteration of `for chunk in images_arc.chunks(chunk_size)`
SpawnWorker ==
  /\ UNCHANGED <<splitVars, dpiVars, saveVars, b64Vars, uiVars>>
  /\ spc = "spawn"
  /\ pos < Len(images)
  /\ LET chunk_clone == NextChunk(images, pos)
         chunk_len == Len(chunk_clone)
     IN /\ workers' = Append(workers,
                        [items |-> chunk_clone, start_num |-> StartNum(image_num),
                         idx |-> 0, pc |-> "left", res |-> "none"])
        /\ senders' = senders + 1
        /\ image_num' = AdvanceImageNum(image_num, chunk_len)
        /\ pos' = pos + chunk_len
  /\ UNCHANGED <<images, dir, fate, spc, queue, results, joined, files, writes,
                 attempts, result>>

\* a bug: the scheduler keeps its own Sender while it drains
KeepTx(s) == s

\* drop(tx): one live Sender less
AfterDropTx(s) == s - 1

\* the loop is over: drop(tx)
DropTx ==
  /\ UNCHANGED <<splitVars, dpiVars, saveVars, b64Vars, uiVars>>
  /\ spc = "spawn"
  /\ pos >= Len(images)
  /\ senders' = AfterDropTx(senders)
  /\ spc' = "drain"
  /\ UNCHANGED <<images, dir, fate, pos, image_num, workers, queue, results,
                 joined, files, writes, attempts, result>>

\* for msg in rx.iter() { _results.push(msg) }
Recv ==
  /\ UNCHANGED <<splitVars, dpiVars, saveVars, b64Vars, uiVars>>
  /\ spc = "drain"
  /\ queue # <<>>
  /\ results' = Append(results, Head(queue))
  /\ queue' = Tail(queue)
  /\ UNCHANGED <<images, dir, fate, spc, pos, image_num, workers, senders, joined,
                 files, writes, attempts, result>>

\* rx.iter() returns None
DrainEnd ==
  /\ UNCHANGED <<splitVars, dpiVars, saveVars, b64Vars, uiVars>>
  /\ spc = "drain"
  /\ ChannelClosed(queue, senders)
  /\ spc' = "join"
  /\ UNCHANGED <<images, dir, fate, pos, image_num, workers, queue, senders,
                 results, joined, files, writes, attempts, result>>

\* for handle in handles { let _ = handle.join(); }
Join ==
  /\ UNCHANGED <<splitVars, dpiVars, saveVars, b64Vars, uiVars>>
  /\ spc = "join"
  /\ joined < Len(workers)
  /\ workers[joined + 1].pc = "done"
  /\ joined' = joined + 1
  /\ UNCHANGED <<images, dir, fate, spc, pos, image_num, workers, queue, senders,
                 results, files, writes, attempts, result>>

\* Ok(total_images)
Return ==
  /\ UNCHANGED <<splitVars, dpiVars, saveVars, b64Vars, uiVars>>
  /\ spc = "join"
  /\ joined = Len(workers)
  /\ result' = [kind |-> "ok", count |-> TotalImages(images)]
  /\ spc' = "done"
  /\ UNCHANGED <<images, dir, fate, pos, image_num, workers, queue, senders,
                 results, joined, files, writes, attempts>>

\* ---- the worker threads -------------------------------------------------
Item(w) == workers[w].items[workers[w].idx + 1]
SeqNum(w) == CurrentNum(workers[w].start_num, workers[w].idx)

\* a bug: a success token is sent whatever the split returned
TokenAlwaysOk(res, item) == [ok |-> TRUE, item |-> item.id]

\* the message sent for an item: the success mark or the failure mark, and
\* the item's file name
TokenFor(res, item) == [ok |-> res = "ok", item |-> item.id]

\* std::fs::write(path, &jpg_buf) at the end of save_with_dpi
WriteFile(w, half) ==
  /\ files' = files \cup {[name |-> FileName(SeqNum(w), half),
                           item |-> Item(w).id, by |-> w]}
  /\ writes' = writes (+) SetToBag({FileName(SeqNum(w), half)})

\* process_single_image up to the write of the left half: image::open,
\* dimensions, the two crops, save_with_dpi(&left_half, &left_path, 100)?
SaveLeft(w) ==
  /\ UNCHANGED <<splitVars, dpiVars, saveVars, b64Vars, uiVars>>
  /\ workers[w].pc = "left"
  /\ attempts' = [attempts EXCEPT ![Item(w).id] = @ + 1]
  /\ IF fate[Item(w).path] = "left"
       THEN /\ workers' = [workers EXCEPT ![w].pc = AfterErr(w), ![w].res = "err"]
            /\ UNCHANGED <<files, writes>>
       ELSE /\ workers' = [workers EXCEPT ![w].pc = "right"]
            /\ WriteFile(w, "1")
  /\ UNCHANGED <<images, dir, fate, spc, pos, image_num, queue, senders, results,
                 joined, result>>

\* save_with_dpi(&right_half, &right_path, 100)?; Ok(())
SaveRight(w) ==
  /\ UNCHANGED <<splitVars, dpiVars, saveVars, b64Vars, uiVars>>
  /\ workers[w].pc = "right"
  /\ IF fate[Item(w).path] = "right"
       THEN /\ workers' = [workers EXCEPT ![w].pc = AfterErr(w), ![w].res = "err"]
            /\ UNCHANGED <<files, writes>>
       ELSE /\ workers' = [workers EXCEPT ![w].pc = "send", ![w].res = "ok"]
            /\ WriteFile(w, "2")
  /\ UNCHANGED <<images, dir, fate, spc, pos, image_num, queue, senders, results,
                 joined, attempts, result>>

\* let _ = tx.send(...); then the next item of the chunk, if any
SendToken(w) ==
  /\ UNCHANGED <<splitVars, dpiVars, saveVars, b64Vars, uiVars>>
  /\ workers[w].pc = "send"
  /\ queue' = Append(queue, TokenFor(workers[w].res, Item(w)))
  /\ workers' = [workers EXCEPT
                   ![w].idx = @ + 1,
                   ![w].res = "none",
                   ![w].pc = IF workers[w].idx + 1 < Len(workers[w].items)
                               THEN "left" ELSE "exit"]
  /\ UNCHANGED <<images, dir, fate, spc, pos, image_num, senders, results, joined,
                 files, writes, attempts, result>>

\* the closure returns: its tx clone is dropped, the thread ends
WorkerExit(w) ==
  /\ UNCHANGED <<splitVars, dpiVars, saveVars, b64Vars, uiVars>>
  /\ workers[w].pc = "exit"
  /\ workers' = [workers EXCEPT ![w].pc = "done"]
  /\ senders' = senders - 1
  /\ UNCHANGED <<images, dir, fate, spc, pos, image_num, queue, results, joined,
                 files, writes, attempts, result>>

\* ---- process_single_image: the split geometry ---------------------------
Dims(w, h) == [width |-> w, height |-> h]
NoImage == Dims(0, 0)

\* DynamicImage::crop_imm(x, y, width, height): the rectangle is clamped to
\* the image (x to its width, the width to what is left of x; y alike)
crop_imm(img, x, y, w, h) ==
  LET cx == Min(x, img.width)
      cy == Min(y, img.height)
  IN Dims(Min(w, img.width - cx), Min(h, img.height - cy))

\* let half_width = width / 2;
HalfWidth(w) == w \div 2

\* img.crop_imm(0, 0, half_width, height)
LeftCrop(img, hw, h) == crop_imm(img, 0, 0, hw, h)

\* img.crop_imm(half_width, 0, half_width, height)
RightCrop(img, hw, h) == crop_imm(img, hw, 0, hw, h)

SplitStart ==
  /\ source \in {Dims(w, h) : w \in 1..MaxWidth, h \in 1..MaxHeight}
  /\ s_pc = "open"
  /\ width = 0 /\ height = 0 /\ half_width = 0
  /\ left_half = NoImage /\ right_half = NoImage

SplitIdle ==
  /\ source = NoImage
  /\ s_pc = "idle"
  /\ width = 0 /\ height = 0 /\ half_width = 0
  /\ left_half = NoImage /\ right_half = NoImage

\* let img = image::open(..)?; let (width, height) = img.dimensions();
\* let half_width = width / 2;
OpenImage ==
  /\ UNCHANGED <<jobVars, dpiVars, saveVars, b64Vars, uiVars>>
  /\ s_pc = "open"
  /\ width' = source.width
  /\ height' = source.height
  /\ half_width' = HalfWidth(source.width)
  /\ s_pc' = "crop_left"
  /\ UNCHANGED <<source, left_half, right_half>>

CropLeft ==
  /\ UNCHANGED <<jobVars, dpiVars, saveVars, b64Vars, uiVars>>
  /\ s_pc = "crop_left"
  /\ left_half' = LeftCrop(source, half_width, height)
  /\ s_pc' = "crop_right"
  /\ UNCHANGED <<source, width, height, half_width, right_half>>

CropRight ==
  /\ UNCHANGED <<jobVars, dpiVars, saveVars, b64Vars, uiVars>>
  /\ s_pc = "crop_right"
  /\ right_half' = RightCrop(source, half_width, height)
  /\ s_pc' = "cropped"
  /\ UNCHANGED <<source, width, height, half_width, left_half>>

\* ---- set_jpeg_dpi: the JFIF APP0 density patcher ------------------------
\* buf[i], buf[lo..hi] with the code's 0-based offsets
At(b, i) == b[i + 1]
Slice(b, lo, hi) == SubSeq(b, lo + 1, hi)

\* b"JFIF\0"
JFIF0 == <<74, 70, 73, 70, 0>>

\* (dpi >> 8) as u8, (dpi & 0xFF) as u8
HiByte(d) == (d \div 256) % 256
LoByte(d) == d % 256

\* the while loop of set_jpeg_dpi from offset i: the offset of the segment it
\* patches, or -1 when it breaks or runs off the buffer
RECURSIVE FindJfif(_, _)
FindJfif(b, i) ==
  IF i + 4 > Len(b) THEN -1
  ELSE IF At(b, i) # xFF THEN -1
  ELSE LET marker == At(b, i + 1)
           len == At(b, i + 2) * 256 + At(b, i + 3)
       IN IF marker = xDA THEN -1
          ELSE IF len < 2 THEN -1
          ELSE IF /\ marker = xE0
                  /\ i + 4 + 5 <= Len(b)
                  /\ Slice(b, i + 4, i + 9) = JFIF0
                  /\ i + 15 < Len(b)
                 THEN i
                 ELSE FindJfif(b, i + 2 + len)

\* a bug: only the X density is written
PatchXOnly(b, i, d) ==
  [b EXCEPT ![i + 12] = 1, ![i + 13] = HiByte(d), ![i + 14] = LoByte(d)]

\* buf[units_pos] = 1; buf[x_pos..x_pos + 3] = dpi, dpi (big-endian)
PatchAt(b, i, d) ==
  [b EXCEPT ![i + 12] = 1,
            ![i + 13] = HiByte(d), ![i + 14] = LoByte(d),
            ![i + 15] = HiByte(d), ![i + 16] = LoByte(d)]

\* a bug: the identifier is written without its terminating zero
App0NoNul(d) ==
  <<xFF, xE0, 0, 16, 74, 70, 73, 70>>
    \o <<1, 2, 1, HiByte(d), LoByte(d), HiByte(d), LoByte(d), 0, 0>>

\* the APP0 segment built when none was found
App0(d) ==
  <<xFF, xE0, 0, 16>> \o JFIF0
    \o <<1, 2, 1, HiByte(d), LoByte(d), HiByte(d), LoByte(d), 0, 0>>

\* a bug: the segment overwrites the bytes at the offset instead of shifting them
SpliceOver(b, at, seg) ==
  SubSeq(b, 1, at) \o seg \o SubSeq(b, at + Len(seg) + 1, Len(b))

\* buf.splice(at..at, seg)
Splice(b, at, seg) == SubSeq(b, 1, at) \o seg \o SubSeq(b, at + 1, Len(b))

\* set_jpeg_dpi(buf, dpi): what it returns and the buffer it leaves
set_jpeg_dpi(b, d) ==
  IF Len(b) < 4 \/ At(b, 0) # xFF \/ At(b, 1) # xD8
    THEN [ret |-> "err", buf |-> b]
    ELSE LET i == FindJfif(b, 2)
         IN IF i >= 0
              THEN [ret |-> "ok", buf |-> PatchAt(b, i, d)]
              ELSE [ret |-> "ok", buf |-> Splice(b, 2, App0(d))]

\* the buffers explored: a two-byte head followed by up to MaxSegs pieces
Heads == {<<xFF, xD8>>, <<xFF, 217>>}

JfifSeg(units, xd, yd) ==
  <<xFF, xE0, 0, 16>> \o JFIF0
    \o <<1, 1, units, HiByte(xd), LoByte(xd), HiByte(yd), LoByte(yd), 0, 0>>

Pieces ==
  { JfifSeg(0, 1, 1),                         \* a JFIF APP0 with no unit
    JfifSeg(2, 118, 300),                     \* a JFIF APP0 in dots per cm
    <<xFF, xE0, 0, 16>> \o JFIF0 \o <<1, 1>>, \* a JFIF APP0 cut after the version
    <<xFF, xE0, 0, 7>> \o JFIF0,              \* an APP0 holding the identifier only
    <<xFF, xE0, 0, 8, 74, 70, 88, 88, 0, 16>>,\* an APP0 "JFXX\0"
    <<xFF, 225, 0, 4, 69, 120>>,              \* an APP1
    <<xFF, 219, 0, 9, 0, 3, 2, 2, 3, 2, 2>>,  \* a DQT
    <<xFF, xDA, 0, 4, 1, 0>>,                 \* a Start-Of-Scan
    <<xFF, 226, 0, 1>>,                       \* a segment length below 2
    <<0>> }                                   \* a byte that is no marker

\* the dpi values passed: 300 as save_with_dpi does, and another
DpiValues == {300, 72}

DpiStart ==
  /\ buf \in Heads
  /\ orig = <<>>
  /\ dpi = 0
  /\ ret = "none"
  /\ calls = 0
  /\ nsegs = 0

DpiIdle ==
  /\ buf = <<>>
  /\ orig = <<>>
  /\ dpi = 0
  /\ ret = "none"
  /\ calls = 0
  /\ nsegs = 0

\* the bytes handed to set_jpeg_dpi: the buffer grows by one piece
AppendPiece ==
  /\ UNCHANGED <<jobVars, splitVars, saveVars, b64Vars, uiVars>>
  /\ calls = 0
  /\ nsegs < MaxSegs
  /\ \E piece \in Pieces : buf' = buf \o piece
  /\ nsegs' = nsegs + 1
  /\ UNCHANGED <<orig, dpi, ret, calls>>

\* set_jpeg_dpi(&mut buf, d)
SetJpegDpi ==
  /\ UNCHANGED <<jobVars, splitVars, saveVars, b64Vars, uiVars>>
  /\ calls < MaxCalls
  /\ \E d \in DpiValues :
       LET r == set_jpeg_dpi(buf, d)
       IN /\ orig' = buf
          /\ dpi' = d
          /\ buf' = r.buf
          /\ ret' = r.ret
  /\ calls' = calls + 1
  /\ UNCHANGED nsegs

\* ---- save_with_dpi: encode, patch, write --------------------------------
\* the file at path: no file, or the one content written
NoFile == {}

\* what the JPEG encoder may leave in jpg_buf: any head, SOI or not, followed
\* by fewer than MaxSegs pieces
RECURSIVE PiecesUpTo(_)
PiecesUpTo(k) ==
  IF k = 0 THEN {<<>>}
  ELSE LET shorter == PiecesUpTo(k - 1)
       IN shorter \cup {b \o piece : b \in shorter, piece \in Pieces}

EncoderOutputs ==
  {h \o tail : h \in Heads \cup {<<>>, <<0, xD8>>}, tail \in PiecesUpTo(MaxSegs - 1)}

\* a bug: the error of set_jpeg_dpi is dropped and the write goes ahead
WriteAnyway(r) == "write"

\* set_jpeg_dpi(&mut jpg_buf, 300)?  -- where save_with_dpi goes next
AfterPatch(r) == IF r = "ok" THEN "write" ELSE "returned"

SaveStart ==
  /\ jpg_buf = <<>>
  /\ encoded = <<>>
  /\ save_pc = "encode"
  /\ save_ret = "none"
  /\ out_file = NoFile

SaveIdle ==
  /\ jpg_buf = <<>>
  /\ encoded = <<>>
  /\ save_pc = "idle"
  /\ save_ret = "none"
  /\ out_file = NoFile

\* encoder.encode_image(&rgb_image) filled jpg_buf
Encode ==
  /\ UNCHANGED <<jobVars, splitVars, dpiVars, b64Vars, uiVars>>
  /\ save_pc = "encode"
  /\ \E b \in EncoderOutputs : jpg_buf' = b /\ encoded' = b
  /\ save_pc' = "patch"
  /\ UNCHANGED <<save_ret, out_file>>

\* encoder.encode_image(&rgb_image)? returned the error
EncodeErr ==
  /\ UNCHANGED <<jobVars, splitVars, dpiVars, b64Vars, uiVars>>
  /\ save_pc = "encode"
  /\ save_ret' = "err"
  /\ save_pc' = "returned"
  /\ UNCHANGED <<jpg_buf, encoded, out_file>>

\* set_jpeg_dpi(&mut jpg_buf, 300)?
PatchDpi ==
  /\ UNCHANGED <<jobVars, splitVars, dpiVars, b64Vars, uiVars>>
  /\ save_pc = "patch"
  /\ LET r == set_jpeg_dpi(jpg_buf, 300)
     IN /\ jpg_buf' = r.buf
        /\ save_pc' = AfterPatch(r.ret)
        /\ save_ret' = IF AfterPatch(r.ret) = "returned" THEN "err" ELSE save_ret
  /\ UNCHANGED <<encoded, out_file>>

\* std::fs::write(path, &jpg_buf)?; Ok(())
WriteOut ==
  /\ UNCHANGED <<jobVars, splitVars, dpiVars, b64Vars, uiVars>>
  /\ save_pc = "write"
  /\ out_file' = {jpg_buf}
  /\ save_ret' = "ok"
  /\ save_pc' = "returned"
  /\ UNCHANGED <<jpg_buf, encoded>>

\* std::fs::write(path, &jpg_buf)? returned the error
WriteErr ==
  /\ UNCHANGED <<jobVars, splitVars, dpiVars, b64Vars, uiVars>>
  /\ save_pc = "write"
  /\ save_ret' = "err"
  /\ save_pc' = "returned"
  /\ UNCHANGED <<jpg_buf, encoded, out_file>>

\* ---- encode_to_base64 ---------------------------------------------------
\* const TABLE: &[u8] = b"ABC...xyz0123456789+/"
TABLE ==
  <<"A", "B", "C", "D", "E", "F", "G", "H", "I", "J", "K", "L", "M",
    "N", "O", "P", "Q", "R", "S", "T", "U", "V", "W", "X", "Y", "Z",
    "a", "b", "c", "d", "e", "f", "g", "h", "i", "j", "k", "l", "m",
    "n", "o", "p", "q", "r", "s", "t", "u", "v", "w", "x", "y", "z",
    "0", "1", "2", "3", "4", "5", "6", "7", "8", "9", "+", "/">>

\* n >> k on a u32, x & 63
Shr(n, k) == n \div (2 ^ k)
And63(x) == x % 64

\* a bug: the third character is padded whenever the chunk is not full
ChunkCharsPadEarly(chunk) ==
  LET b1 == chunk[1]
      b2 == IF Len(chunk) > 1 THEN chunk[2] ELSE 0
      b3 == IF Len(chunk) > 2 THEN chunk[3] ELSE 0
      n == b1 * 65536 + b2 * 256 + b3
  IN << TABLE[And63(Shr(n, 18)) + 1],
        TABLE[And63(Shr(n, 12)) + 1],
        IF Len(chunk) > 2 THEN TABLE[And63(Shr(n, 6)) + 1] ELSE "=",
        IF Len(chunk) > 2 THEN TABLE[And63(n) + 1] ELSE "=" >>

\* the body of the loop: the four characters pushed for one chunk
ChunkChars(chunk) ==
  LET b1 == chunk[1]
      b2 == IF Len(chunk) > 1 THEN chunk[2] ELSE 0
      b3 == IF Len(chunk) > 2 THEN chunk[3] ELSE 0
      n == b1 * 65536 + b2 * 256 + b3
  IN << TABLE[And63(Shr(n, 18)) + 1],
        TABLE[And63(Shr(n, 12)) + 1],
        IF Len(chunk) > 1 THEN TABLE[And63(Shr(n, 6)) + 1] ELSE "=",
        IF Len(chunk) > 2 THEN TABLE[And63(n) + 1] ELSE "=" >>

\* the byte values tried: all bits clear, all set, the lowest, the highest,
\* a letter, and one that encodes to '+'
ByteValues == {0, 1, 77, 128, 251, 255}

RECURSIVE ByteSeqs(_)
ByteSeqs(k) ==
  IF k = 0 THEN {<<>>}
  ELSE LET shorter == ByteSeqs(k - 1)
       IN shorter \cup {Append(b, v) : b \in shorter, v \in ByteValues}

B64Start ==
  /\ data \in ByteSeqs(MaxBytes)
  /\ consumed = 0
  /\ b64_result = <<>>
  /\ b64_ret = "none"

B64Idle ==
  /\ data = <<>>
  /\ consumed = 0
  /\ b64_result = <<>>
  /\ b64_ret = "idle"

\* one turn of for chunk in data.chunks(3)
EncodeChunkStep ==
  /\ UNCHANGED <<jobVars, splitVars, dpiVars, saveVars, uiVars>>
  /\ b64_ret = "none"
  /\ consumed < Len(data)
  /\ LET chunk == SubSeq(data, consumed + 1, Min(consumed + 3, Len(data)))
     IN /\ b64_result' = b64_result \o ChunkChars(chunk)
        /\ consumed' = consumed + Len(chunk)
  /\ UNCHANGED <<data, b64_ret>>

\* Ok(result)
EncodeReturn ==
  /\ UNCHANGED <<jobVars, splitVars, dpiVars, saveVars, uiVars>>
  /\ b64_ret = "none"
  /\ consumed = Len(data)
  /\ b64_ret' = "ok"
  /\ UNCHANGED <<data, consumed, b64_result>>

\* ---- App, Controls, ImageCard: the signals and their handlers ------------
\* Option<T>: None, Some(x)
None == <<>>
Some(x) == <<x>>

\* the files the dialog can hand over, and the one that is no readable JPEG
Files == 1..MaxFiles
BadFile == 2

\* the dialog hands the picked files in name order
RECURSIVE Ascending(_, _)
Ascending(S, from) ==
  IF from > MaxFiles THEN <<>>
  ELSE (IF from \in S THEN <<from>> ELSE <<>>) \o Ascending(S, from + 1)

Selections == {Ascending(S, 1) : S \in SUBSET Files}

\* the selections among the first MaxFairFiles files
FairSelections == {Ascending(S, 1) : S \in SUBSET (1..MaxFairFiles)}

\* paths[0].path().parent(): every file offered lies in one folder
Parent(path) == "folder"

\* create_thumbnail(&path_buf): Err for the unreadable file, else the
\* base64 text of its thumbnail
create_thumbnail(path) ==
  IF path = BadFile THEN [ok |-> FALSE, thumbnail_base64 |-> <<>>]
                    ELSE [ok |-> TRUE, thumbnail_base64 |-> <<path>>]

LoadedItem(id, path, thumbnail) ==
  [id |-> id, path |-> path, thumbnail_base64 |-> thumbnail]

\* id += 1
NextId(id) == id + 1

\* a bug: the first failure ends the load
StopAfterErr(paths) == <<>>

\* Err(_) => {}: the loop goes on with the next path
RestAfterErr(paths) == Tail(paths)

\* the closure given to spawn_blocking: for path_buf in file_paths { .. }
RECURSIVE LoadLoop(_, _, _)
LoadLoop(paths, items, id) ==
  IF paths = <<>> THEN items
  ELSE LET t == create_thumbnail(Head(paths))
       IN IF t.ok
            THEN LoadLoop(Tail(paths),
                          Append(items, LoadedItem(id, Head(paths), t.thumbnail_base64)),
                          NextId(id))
            ELSE LoadLoop(RestAfterErr(paths), items, id)

\* Notification { message, notification_type, .. }: the message is its
\* format string and the number formatted into it (0 when there is none);
\* the id, a timestamp nothing reads, is left out
Notice(text, n, type) ==
  [message |-> [text |-> text, n |-> n], notification_type |-> type]

\* show_notification: the signal is set, and unless the type is Processing a
\* task is spawned that sleeps 3 seconds and then clears the signal
ShowNotification(text, n, type) ==
  /\ notification' = Some(Notice(text, n, type))
  /\ timers' = IF type # "Processing" THEN timers + 1 ELSE timers

\* the model keeps at most MaxTimers sleeping tasks
TimerRoom == timers < MaxTimers

\* a bug: the buttons are never disabled
ButtonsNeverDisabled == TRUE

\* disabled: processing() || loading_files()
ButtonsEnabled == ~(processing \/ loading_files)

\* the cards ImagePreview shows: one per item
CardIds == {ui_images[k].id : k \in 1..Len(ui_images)}

\* imgs.iter().position(|img| img.id == id), counted from 1; 0 for None
Position(list, id) ==
  IF \E k \in 1..Len(list) : list[k].id = id
    THEN CHOOSE k \in 1..Len(list) :
           list[k].id = id /\ \A j \in 1..(k - 1) : list[j].id # id
    ELSE 0

\* a bug: the item is copied over its neighbour
SwapOverwrite(list, i, j) == [list EXCEPT ![i] = list[j]]

\* imgs.swap(i, j)
Swap(list, i, j) == [list EXCEPT ![i] = list[j], ![j] = list[i]]

\* move_left, ArrowLeft: if idx > 0 { imgs.swap(idx, idx - 1) }
MovedLeft(list, id) ==
  LET idx == Position(list, id)
  IN IF idx > 1 THEN Swap(list, idx, idx - 1) ELSE list

\* move_right, ArrowRight: if idx + 1 < imgs.len() { imgs.swap(idx, idx + 1) }
MovedRight(list, id) ==
  LET idx == Position(list, id)
  IN IF idx > 0 /\ idx < Len(list) THEN Swap(list, idx, idx + 1) ELSE list

\* ondrop: the dragged item and the card dropped on change places
Dropped(list, dragged, item_id) ==
  IF dragged # None /\ dragged[1] # item_id
    THEN LET src == Position(list, dragged[1])
             tgt == Position(list, item_id)
         IN IF src > 0 /\ tgt > 0 THEN Swap(list, src, tgt) ELSE list
    ELSE list

\* a bug: the job reads the images signal when it is dispatched
LiveItems(snapshot, current) == current

\* let imgs_for_bg = imgs.clone();
JobItems(snapshot, current) == snapshot

UiStart ==
  /\ ui_images = <<>>
  /\ folder_path = None
  /\ processing = FALSE
  /\ notification = None
  /\ loading_files = FALSE
  /\ drag_source = None
  /\ drag_over_id = None
  /\ timers = 0
  /\ load_pc = "idle"
  /\ file_paths = <<>>
  /\ image_items = <<>>
  /\ export_pc = "idle"
  /\ imgs_snap = <<>>
  /\ imgs_for_bg = <<>>
  /\ last_loaded = <<>>
  /\ at_click = <<>>

otherVars == <<jobVars, splitVars, dpiVars, saveVars, b64Vars>>
\* OPEN: open_files up to the dialog
OpenClick ==
  /\ UNCHANGED otherVars
  /\ ButtonsEnabled
  /\ loading_files' = TRUE
  /\ load_pc' = "dialog"
  /\ UNCHANGED <<ui_images, folder_path, processing, notification, drag_source,
                 drag_over_id, timers, file_paths, image_items, export_pc, imgs_snap,
                 imgs_for_bg, last_loaded, at_click>>

\* Some(paths) if !paths.is_empty(): the blocking task is started
PickFilesFrom(offered) ==
  /\ UNCHANGED otherVars
  /\ load_pc = "dialog"
  /\ \E paths \in offered \ {<<>>} :
       /\ folder_path' = Some(Parent(paths[1]))
       /\ file_paths' = paths
  /\ load_pc' = "thumbs"
  /\ UNCHANGED <<ui_images, processing, notification, loading_files, drag_source,
                 drag_over_id, timers, image_items, export_pc, imgs_snap, imgs_for_bg,
                 last_loaded, at_click>>

\* the dialog offers every file
PickFiles == PickFilesFrom(Selections)

\* the dialog offers the first MaxFairFiles files
PickFairFiles == PickFilesFrom(FairSelections)

\* _ => the dialog was cancelled or gave no path
PickNothing ==
  /\ UNCHANGED otherVars
  /\ load_pc = "dialog"
  /\ TimerRoom
  /\ ShowNotification("No files selected", 0, "Info")
  /\ loading_files' = FALSE
  /\ load_pc' = "idle"
  /\ UNCHANGED <<ui_images, folder_path, processing, drag_source, drag_over_id,
                 file_paths, image_items, export_pc, imgs_snap, imgs_for_bg, last_loaded,
                 at_click>>

\* the blocking task ran and returned (image_items, total_files)
LoadThumbnails ==
  /\ UNCHANGED otherVars
  /\ load_pc = "thumbs"
  /\ image_items' = LoadLoop(file_paths, <<>>, 0)
  /\ load_pc' = "loaded"
  /\ UNCHANGED <<ui_images, folder_path, processing, notification, loading_files,
                 drag_source, drag_over_id, timers, file_paths, export_pc, imgs_snap,
                 imgs_for_bg, last_loaded, at_click>>

\* .await.ok() is None: the blocking task did not return
LoadTaskFailed ==
  /\ UNCHANGED otherVars
  /\ load_pc = "thumbs"
  /\ loading_files' = FALSE
  /\ load_pc' = "idle"
  /\ file_paths' = <<>>
  /\ UNCHANGED <<ui_images, folder_path, processing, notification, drag_source,
                 drag_over_id, timers, image_items, export_pc, imgs_snap, imgs_for_bg,
                 last_loaded, at_click>>

\* .map(|(image_items, _)| ..); loading_files.set(false)
LoadApply ==
  /\ UNCHANGED otherVars
  /\ load_pc = "loaded"
  /\ TimerRoom
  /\ IF image_items # <<>>
       THEN /\ ui_images' = image_items
            /\ last_loaded' = image_items
            /\ ShowNotification("Loaded {} images", Len(image_items), "Success")
       ELSE /\ ShowNotification("No valid images found", 0, "Error")
            /\ UNCHANGED <<ui_images, last_loaded>>
  /\ loading_files' = FALSE
  /\ load_pc' = "idle"
  /\ file_paths' = <<>>
  /\ image_items' = <<>>
  /\ UNCHANGED <<folder_path, processing, drag_source, drag_over_id, export_pc,
                 imgs_snap, imgs_for_bg, at_click>>

\* CLEAR: clear_images
ClearClick ==
  /\ UNCHANGED otherVars
  /\ ButtonsEnabled
  /\ TimerRoom
  /\ ui_images' = <<>>
  /\ folder_path' = None
  /\ ShowNotification("Cleared all images", 0, "Info")
  /\ UNCHANGED <<processing, loading_files, drag_source, drag_over_id, load_pc,
                 file_paths, image_items, export_pc, imgs_snap, imgs_for_bg, last_loaded,
                 at_click>>

\* RENAME & SPLIT: rename_split up to the dialog
RenameClick ==
  /\ UNCHANGED otherVars
  /\ ButtonsEnabled
  /\ TimerRoom
  /\ IF ui_images = <<>>
       THEN /\ ShowNotification("No images to process", 0, "Error")
            /\ UNCHANGED <<processing, export_pc, imgs_snap, at_click>>
       ELSE /\ processing' = TRUE
            /\ ShowNotification("Selecting save location...", 0, "Info")
            /\ imgs_snap' = ui_images
            /\ at_click' = ui_images
            /\ export_pc' = "dialog"
  /\ UNCHANGED <<ui_images, folder_path, loading_files, drag_source, drag_over_id,
                 load_pc, file_paths, image_items, imgs_for_bg, last_loaded>>

\* Some(folder_handle): process_images_sync is started on a blocking thread
PickFolder ==
  /\ UNCHANGED otherVars
  /\ export_pc = "dialog"
  /\ ShowNotification("Processing images...", 0, "Processing")
  /\ imgs_for_bg' = JobItems(imgs_snap, ui_images)
  /\ export_pc' = "running"
  /\ UNCHANGED <<ui_images, folder_path, processing, loading_files, drag_source,
                 drag_over_id, load_pc, file_paths, image_items, imgs_snap, last_loaded,
                 at_click>>

\* a bug: the cancelled dialog leaves the flag set
FlagLeftSet == TRUE

\* None => { ..; processing.set(false) }
FlagAfterCancel == FALSE

\* None: the folder dialog was cancelled
PickFolderCancel ==
  /\ UNCHANGED otherVars
  /\ export_pc = "dialog"
  /\ TimerRoom
  /\ ShowNotification("Save location cancelled", 0, "Info")
  /\ processing' = FlagAfterCancel
  /\ export_pc' = "idle"
  /\ imgs_snap' = <<>>
  /\ at_click' = <<>>
  /\ UNCHANGED <<ui_images, folder_path, loading_files, drag_source, drag_over_id,
                 load_pc, file_paths, image_items, imgs_for_bg, last_loaded>>

\* the blocking task is over: Ok(Ok(n)), Ok(Err(msg)) or Err(join_err)
ExportDone ==
  /\ UNCHANGED otherVars
  /\ export_pc = "running"
  /\ TimerRoom
  /\ \/ ShowNotification("Completed! Processed {} images",
                         TotalImages(imgs_for_bg), "Success")
     \/ ShowNotification("Processing error: {}", 0, "Error")
     \/ ShowNotification("Processing task failed: {}", 0, "Error")
  /\ processing' = FALSE
  /\ export_pc' = "idle"
  /\ imgs_snap' = <<>>
  /\ imgs_for_bg' = <<>>
  /\ at_click' = <<>>
  /\ UNCHANGED <<ui_images, folder_path, loading_files, drag_source, drag_over_id,
                 load_pc, file_paths, image_items, last_loaded>>

\* a task of show_notification wakes up: notification.set(None)
TimerFires ==
  /\ UNCHANGED otherVars
  /\ timers > 0
  /\ notification' = None
  /\ timers' = timers - 1
  /\ UNCHANGED <<ui_images, folder_path, processing, loading_files, drag_source,
                 drag_over_id, load_pc, file_paths, image_items, export_pc, imgs_snap,
                 imgs_for_bg, last_loaded, at_click>>

\* what the handlers of a card leave alone
CardFrame ==
  UNCHANGED <<folder_path, processing, notification, loading_files, timers, load_pc,
              file_paths, image_items, export_pc, imgs_snap, imgs_for_bg, last_loaded,
              at_click>>

\* the "Move left" button of the card of item_id
MoveLeft(item_id) ==
  /\ UNCHANGED otherVars
  /\ ui_images' = MovedLeft(ui_images, item_id)
  /\ UNCHANGED <<drag_source, drag_over_id>>
  /\ CardFrame

\* the "Move right" button of the card of item_id
MoveRight(item_id) ==
  /\ UNCHANGED otherVars
  /\ ui_images' = MovedRight(ui_images, item_id)
  /\ UNCHANGED <<drag_source, drag_over_id>>
  /\ CardFrame

\* onkeydown on the focused card
KeyDown(item_id) ==
  /\ UNCHANGED otherVars
  /\ \E key \in {"ArrowLeft", "ArrowRight", "Enter"} :
       ui_images' = CASE key = "ArrowLeft" -> MovedLeft(ui_images, item_id)
                      [] key = "ArrowRight" -> MovedRight(ui_images, item_id)
                      [] OTHER -> ui_images
  /\ UNCHANGED <<drag_source, drag_over_id>>
  /\ CardFrame

\* ondragstart
DragStart(item_id) ==
  /\ UNCHANGED otherVars
  /\ drag_source' = Some(item_id)
  /\ UNCHANGED <<ui_images, drag_over_id>>
  /\ CardFrame

\* ondragover
DragOver(item_id) ==
  /\ UNCHANGED otherVars
  /\ drag_over_id' = Some(item_id)
  /\ UNCHANGED <<ui_images, drag_source>>
  /\ CardFrame

\* ondragleave
DragLeave(item_id) ==
  /\ UNCHANGED otherVars
  /\ drag_over_id' = None
  /\ UNCHANGED <<ui_images, drag_source>>
  /\ CardFrame

\* ondrop on the card of item_id
Drop(item_id) ==
  /\ UNCHANGED otherVars
  /\ ui_images' = Dropped(ui_images, drag_source, item_id)
  /\ drag_source' = None
  /\ drag_over_id' = None
  /\ CardFrame

\* ---- the specifications -------------------------------------------------
JobInit ==
  /\ \E n \in 0..MaxImages : JobStart(n)
  /\ SplitIdle
  /\ DpiIdle
  /\ SaveIdle
  /\ B64Idle
  /\ UiStart

Init == JobInit

Next ==
  \/ CreateDirOk
  \/ CreateDirErr
  \/ SpawnWorker
  \/ DropTx
  \/ Recv
  \/ DrainEnd
  \/ Join
  \/ Return
  \/ \E w \in 1..Len(workers) : SaveLeft(w)
  \/ \E w \in 1..Len(workers) : SaveRight(w)
  \/ \E w \in 1..Len(workers) : SendToken(w)
  \/ \E w \in 1..Len(workers) : WorkerExit(w)

\* the export job
Spec == Init /\ [][Next]_vars

\* the export job with its threads scheduled: the scheduler and the workers
\* are OS threads, so a step that stays possible is taken
FairSpec == Spec /\ WF_vars(Next)

SplitInit == SplitStart /\ JobStart(0) /\ DpiIdle /\ SaveIdle /\ B64Idle /\ UiStart

SplitNext == OpenImage \/ CropLeft \/ CropRight

\* the geometry of one split
SpecSplit == SplitInit /\ [][SplitNext]_vars

DpiInit == DpiStart /\ JobStart(0) /\ SplitIdle /\ SaveIdle /\ B64Idle /\ UiStart

DpiNext == AppendPiece \/ SetJpegDpi

\* set_jpeg_dpi on a buffer
SpecDpi == DpiInit /\ [][DpiNext]_vars

SaveInit == SaveStart /\ JobStart(0) /\ SplitIdle /\ DpiIdle /\ B64Idle /\ UiStart

SaveNext == Encode \/ EncodeErr \/ PatchDpi \/ WriteOut \/ WriteErr

\* save_with_dpi of one half
SpecSave == SaveInit /\ [][SaveNext]_vars

B64Init == B64Start /\ JobStart(0) /\ SplitIdle /\ DpiIdle /\ SaveIdle /\ UiStart

B64Next == EncodeChunkStep \/ EncodeReturn

\* encode_to_base64 of a byte slice
SpecB64 == B64Init /\ [][B64Next]_vars

UiInit ==
  /\ UiStart
  /\ JobStart(0)
  /\ SplitIdle
  /\ DpiIdle
  /\ SaveIdle
  /\ B64Idle

UiNext ==
  \/ OpenClick
  \/ PickFiles
  \/ PickNothing
  \/ LoadThumbnails
  \/ LoadTaskFailed
  \/ LoadApply
  \/ ClearClick
  \/ RenameClick
  \/ PickFolder
  \/ PickFolderCancel
  \/ ExportDone
  \/ TimerFires
  \/ \E item_id \in CardIds : MoveLeft(item_id)
  \/ \E item_id \in CardIds : MoveRight(item_id)
  \/ \E item_id \in CardIds : KeyDown(item_id)
  \/ \E item_id \in CardIds : DragStart(item_id)
  \/ \E item_id \in CardIds : DragOver(item_id)
  \/ \E item_id \in CardIds : DragLeave(item_id)
  \/ \E item_id \in CardIds : Drop(item_id)

\* the window: loading, clearing, reordering and exporting
SpecUi == UiInit /\ [][UiNext]_vars

FairUiNext ==
  \/ OpenClick
  \/ PickFairFiles
  \/ PickNothing
  \/ LoadThumbnails
  \/ LoadTaskFailed
  \/ LoadApply
  \/ ClearClick
  \/ RenameClick
  \/ PickFolder
  \/ PickFolderCancel
  \/ ExportDone
  \/ TimerFires
  \/ \E item_id \in CardIds : MoveLeft(item_id)
  \/ \E item_id \in CardIds : MoveRight(item_id)
  \/ \E item_id \in CardIds : KeyDown(item_id)
  \/ \E item_id \in CardIds : DragStart(item_id)
  \/ \E item_id \in CardIds : DragOver(item_id)
  \/ \E item_id \in CardIds : DragLeave(item_id)
  \/ \E item_id \in CardIds : Drop(item_id)

\* the window with its tasks scheduled: a dialog that is open is closed, a
\* blocking task that was started ends, a task that can go on is resumed,
\* and a sleeping timer wakes up
FairSpecUi ==
  /\ UiInit
  /\ [][FairUiNext]_vars
  /\ WF_vars(PickFairFiles \/ PickNothing)
  /\ WF_vars(LoadThumbnails \/ LoadTaskFailed)
  /\ WF_vars(LoadApply)
  /\ WF_vars(PickFolder \/ PickFolderCancel)
  /\ WF_vars(ExportDone)
  /\ WF_vars(TimerFires)

\* ---- properties of the export job (Spec) --------------------------------
n_items == Len(images)
Returned == spc = "done" /\ result.kind = "ok"

\* C1: the item at 1-based position p of the list is written to the files
\* pad(p)_1.jpg and pad(p)_2.jpg and to no other, whatever the interleaving
\* of the workers; when the job has returned, every item that split has both.
SequenceFollowsOrder ==
  /\ {<<f.item, f.name>> : f \in files} \subseteq
       {<<images[p].id, <<pad_number(p), "_", h, ".jpg">>>> :
          p \in 1..n_items, h \in {"1", "2"}}
  /\ Returned =>
       \A p \in 1..n_items :
         fate[images[p].path] = "ok" =>
           \A h \in {"1", "2"} :
             \E f \in files : f.item = images[p].id
                              /\ f.name = <<pad_number(p), "_", h, ".jpg">>

\* C1 witness: a job of two chunks returned, all files written, and the first
\* token received is the fourth item's and the last received is the third
\* item's: the second worker started and finished before the first ended.
LastChunkFinishedFirst ==
  /\ Returned
  /\ n_items >= 5
  /\ \A p \in 1..n_items : fate[p] = "ok"
  /\ Cardinality(files) = 2 * n_items
  /\ results[1].item = images[4].id
  /\ results[n_items].item = images[3].id

\* C2: no file name is written twice, nor by two workers (each name written
\* has one writer and one source item), and the sequence numbers of different
\* chunks are disjoint.
ChunkNumbers(w) ==
  {CurrentNum(workers[w].start_num, i) : i \in 0..(Len(workers[w].items) - 1)}

DisjointFilenames ==
  /\ \A name \in DOMAIN writes : writes[name] <= 1
  /\ Cardinality({f.name : f \in files}) = Cardinality(files)
  /\ \A v, w \in 1..Len(workers) : v # w => (ChunkNumbers(v) \cap ChunkNumbers(w) = {})

\* C2 witness: two workers are both between their two writes of an item.
TwoWorkersWriting ==
  \E v, w \in 1..Len(workers) :
    /\ v # w
    /\ workers[v].pc = "right" /\ workers[w].pc = "right"
    /\ \E f, g \in files : f.by = v /\ g.by = w

\* C3: the chunks spawned so far are the successive slices of at most 3 items
\* of the list, all of exactly 3 but possibly the last, one worker each, chunk
\* k starting at 1 plus the lengths of the chunks before it; once the loop is
\* over there are ceil(n/3) of them and they cover the list.
RECURSIVE LenSum(_, _)
LenSum(ws, k) == IF k = 0 THEN 0 ELSE Len(ws[k].items) + LenSum(ws, k - 1)

ChunkPartition ==
  /\ \A k \in 1..Len(workers) :
       /\ Len(workers[k].items) \in 1..3
       /\ (k < Len(workers) \/ (spc = "spawn" /\ pos < n_items))
            => Len(workers[k].items) = 3
       /\ workers[k].start_num = 1 + LenSum(workers, k - 1)
       /\ \A j \in 1..Len(workers[k].items) :
            workers[k].items[j] = images[3 * (k - 1) + j]
  /\ LenSum(workers, Len(workers)) <= n_items
  /\ (dir = "created" /\ spc # "spawn") =>
       /\ Len(workers) = (n_items + 2) \div 3
       /\ LenSum(workers, Len(workers)) = n_items

\* C3 witness: five items were cut into a chunk of 3 starting at 1 and a
\* chunk of 2 starting at 4.
TwoChunksSpawned ==
  /\ n_items = 5
  /\ spc = "drain"
  /\ Len(workers) = 2
  /\ Len(workers[1].items) = 3 /\ workers[1].start_num = 1
  /\ Len(workers[2].items) = 2 /\ workers[2].start_num = 4

\* C4: no item is attempted twice, and when the job has returned every item
\* was attempted exactly once and the directory holds exactly the files of
\* the items that did not fail, under the numbers of their positions.
ExpectedFiles ==
  {<<pad_number(p), "_", "1", ".jpg">> :
     p \in {q \in 1..n_items : fate[images[q].path] \in {"ok", "right"}}}
  \cup {<<pad_number(p), "_", "2", ".jpg">> :
     p \in {q \in 1..n_items : fate[images[q].path] = "ok"}}

FailureIsolated ==
  /\ \A i \in DOMAIN attempts : attempts[i] <= 1
  /\ Returned =>
       /\ \A i \in DOMAIN attempts : attempts[i] = 1
       /\ {f.name : f \in files} = ExpectedFiles
       /\ BagToSet(writes) = ExpectedFiles

\* C4 witness: a batch of 3 whose item 2 fails has returned with the 4 files
\* 01_1, 01_2, 03_1, 03_2.
SecondOfThreeFailed ==
  /\ Returned
  /\ n_items = 3
  /\ fate = <<"ok", "left", "ok">>
  /\ {f.name : f \in files} =
       {<<(<<0, 1>>), "_", "1", ".jpg">>, <<(<<0, 1>>), "_", "2", ".jpg">>,
        <<(<<0, 3>>), "_", "1", ".jpg">>, <<(<<0, 3>>), "_", "2", ".jpg">>}

\* C5: once the directory was created, what the job returns is Ok(n), n the
\* number of items of the job, whatever failed.
ReturnsTotalCount ==
  (spc = "done" /\ dir = "created") => result = [kind |-> "ok", count |-> n_items]

\* C5 witness: every item of a job of more than one chunk failed, and the job
\* returned Ok(n).
AllFailedStillOk ==
  /\ spc = "done"
  /\ n_items >= 4
  /\ \A p \in 1..n_items : fate[p] # "ok"
  /\ \A k \in 1..Len(results) : ~results[k].ok
  /\ result = [kind |-> "ok", count |-> n_items]

\* C6: when creating the directory failed the job has returned an error and
\* nothing was dispatched: no worker, no attempt, no token, no file.
MkdirFailureAborts ==
  dir = "failed" =>
    /\ spc = "done"
    /\ result.kind = "err"
    /\ workers = <<>>
    /\ \A i \in DOMAIN attempts : attempts[i] = 0
    /\ queue = <<>> /\ results = <<>>
    /\ files = {} /\ writes = EmptyBag

\* C6 witness: a job with items ended with an error on the directory.
MkdirFailed ==
  dir = "failed" /\ n_items >= 4 /\ result.kind = "err" /\ spc = "done"

\* C7: the join loop starts only once the channel is drained and closed, and
\* when the job has returned Ok every worker has ended and was joined, no
\* token is left in the channel and every token sent was received.
CompleteOnlyWhenDrainedAndJoined ==
  /\ (spc = "join" \/ Returned) => (queue = <<>> /\ senders = 0)
  /\ Returned =>
       /\ \A w \in 1..Len(workers) : workers[w].pc = "done"
       /\ joined = Len(workers)
       /\ Len(results) = n_items

\* C7 witness: a job of two chunks has returned.
TwoChunkJobReturned ==
  Returned /\ Len(workers) = 2 /\ joined = 2 /\ Len(results) = n_items

\* ---- properties of the split (SpecSplit) --------------------------------
\* C8: the two halves have the height of the source and their widths add up
\* to its width; for an odd width the left half has floor(W/2) columns and
\* the right half the W - floor(W/2) others.
HalvesCoverWidth ==
  s_pc = "cropped" =>
    /\ left_half.width + right_half.width = source.width
    /\ left_half.height = source.height
    /\ right_half.height = source.height
    /\ source.width % 2 = 1 =>
         /\ left_half.width = source.width \div 2
         /\ right_half.width = source.width - source.width \div 2

\* ---- properties of set_jpeg_dpi (SpecDpi) -------------------------------
\* the offsets of the marker segments met from offset i on, each with a
\* readable length of at least 2, up to a Start-Of-Scan or a byte that is no
\* marker
RECURSIVE SegmentsFrom(_, _)
SegmentsFrom(b, i) ==
  IF i + 4 > Len(b) THEN {}
  ELSE IF b[i + 1] # 255 \/ b[i + 2] = 218 THEN {}
  ELSE IF b[i + 3] * 256 + b[i + 4] < 2 THEN {}
  ELSE {i} \cup SegmentsFrom(b, i + 2 + b[i + 3] * 256 + b[i + 4])

\* the segments before Start-Of-Scan that are an APP0 identified "JFIF\0"
JfifSegments(b) ==
  {i \in SegmentsFrom(b, 2) :
     /\ b[i + 2] = 224
     /\ i + 9 <= Len(b)
     /\ SubSeq(b, i + 5, i + 9) = <<74, 70, 73, 70, 0>>}

FirstOf(S) == CHOOSE i \in S : \A j \in S : i <= j

\* C9: after set_jpeg_dpi returned Ok the buffer, walked from offset 2, has
\* an APP0/JFIF segment before Start-Of-Scan, and the first one has the
\* units byte 1 and both densities equal to dpi, big-endian.
FirstJfifReportsDpi ==
  ret = "ok" =>
    /\ JfifSegments(buf) # {}
    /\ LET i == FirstOf(JfifSegments(buf))
       IN /\ i + 16 <= Len(buf)
          /\ buf[i + 12] = 1
          /\ buf[i + 13] * 256 + buf[i + 14] = dpi
          /\ buf[i + 15] * 256 + buf[i + 16] = dpi

\* C9 witness: a buffer whose JFIF segment came second, in dots per cm, was
\* patched in place with 300.
SecondSegmentPatched ==
  /\ ret = "ok"
  /\ calls = 1
  /\ dpi = 300
  /\ Len(buf) = Len(orig)
  /\ FirstOf(JfifSegments(orig)) > 2
  /\ orig[FirstOf(JfifSegments(orig)) + 12] = 2
  /\ buf # orig

\* the 18 bytes of the claim for a dpi value
Inserted18(d) ==
  <<255, 224, 0, 16, 74, 70, 73, 70, 0, 1, 2, 1,
    d \div 256, d % 256, d \div 256, d % 256, 0, 0>>

InsertedAfterSoi(b, d) ==
  SubSeq(b, 1, 2) \o Inserted18(d) \o SubSeq(b, 3, Len(b))

ReportsDpi(b, d) ==
  /\ JfifSegments(b) # {}
  /\ LET i == FirstOf(JfifSegments(b))
     IN /\ i + 16 <= Len(b)
        /\ b[i + 12] = 1
        /\ b[i + 13] * 256 + b[i + 14] = d
        /\ b[i + 15] * 256 + b[i + 16] = d

\* C11: a second (or later) successful call keeps the length the first call
\* left, makes the first APP0/JFIF segment report the new value, and when the
\* buffer already reported that value (the same value was passed before) it
\* leaves every byte as it was: no second segment is inserted.
SecondPatchLastWriteWins ==
  (calls >= 2 /\ ret = "ok") =>
    /\ Len(buf) = Len(orig)
    /\ ReportsDpi(buf, dpi)
    /\ ReportsDpi(orig, dpi) => buf = orig

\* C11 witness: the first call inserted a segment for 300, the second call
\* rewrote it for 72 without growing the buffer.
RepatchedWithOtherValue ==
  /\ calls = 2
  /\ ret = "ok"
  /\ dpi = 72
  /\ ReportsDpi(orig, 300)
  /\ orig[3] = 255 /\ orig[4] = 224 /\ orig[13] = 2
  /\ ReportsDpi(buf, 72)
  /\ buf # orig
  /\ Len(buf) = Len(orig)

\* ---- properties of save_with_dpi (SpecSave) -----------------------------
BeginsWithSoi(b) == Len(b) >= 2 /\ b[1] = 255 /\ b[2] = 216

\* C12: when the encoded buffer does not begin with FF D8, set_jpeg_dpi
\* fails and leaves every byte as it was, and save_with_dpi returns the
\* error without having written the file.
NoSoiNoFile ==
  (save_pc \in {"write", "returned"} /\ ~BeginsWithSoi(encoded)) =>
    /\ save_pc = "returned"
    /\ save_ret = "err"
    /\ jpg_buf = encoded
    /\ out_file = NoFile

\* C12 witness: a buffer headed FF D9 that holds a JFIF segment was refused
\* and no file was written.
NonJpegRefused ==
  /\ save_pc = "returned"
  /\ save_ret = "err"
  /\ Len(encoded) > 4
  /\ encoded[1] = 255 /\ encoded[2] = 217
  /\ JfifSegments(encoded) # {}
  /\ jpg_buf = encoded
  /\ out_file = NoFile

\* ---- properties of encode_to_base64 (SpecB64) ---------------------------
\* the base64 alphabet of RFC 4648, value v at position v + 1
Rfc4648 ==
  <<"A", "B", "C", "D", "E", "F", "G", "H", "I", "J", "K", "L", "M",
    "N", "O", "P", "Q", "R", "S", "T", "U", "V", "W", "X", "Y", "Z">>
  \o <<"a", "b", "c", "d", "e", "f", "g", "h", "i", "j", "k", "l", "m",
       "n", "o", "p", "q", "r", "s", "t", "u", "v", "w", "x", "y", "z">>
  \o <<"0", "1", "2", "3", "4", "5", "6", "7", "8", "9">>
  \o <<"+", "/">>

\* the bits of a byte, and of a byte sequence, most significant first
ByteBits(v) == [k \in 1..8 |-> (v \div (2 ^ (8 - k))) % 2]

RECURSIVE BitsOf(_)
BitsOf(bytes) ==
  IF bytes = <<>> THEN <<>> ELSE ByteBits(Head(bytes)) \o BitsOf(Tail(bytes))

\* the standard encoder: the bit string, zero-filled to a multiple of 6, read
\* six bits at a time, then '=' up to a multiple of 4 characters
RECURSIVE SextetChars(_)
SextetChars(bits) ==
  IF bits = <<>> THEN <<>>
  ELSE LET v == 32 * bits[1] + 16 * bits[2] + 8 * bits[3]
                  + 4 * bits[4] + 2 * bits[5] + bits[6]
       IN <<Rfc4648[v + 1]>> \o SextetChars(SubSeq(bits, 7, Len(bits)))

StdEncode(bytes) ==
  LET bits == BitsOf(bytes)
      fill == (6 - (Len(bits) % 6)) % 6
      chars == SextetChars(bits \o [k \in 1..fill |-> 0])
      pad == (4 - (Len(chars) % 4)) % 4
  IN chars \o [k \in 1..pad |-> "="]

\* the standard decoder: four characters give three bytes, "xx==" one byte,
\* "xxx=" two; <<-1>> for anything that is no canonical padded base64
ValueOf(c) ==
  IF \E v \in 0..63 : Rfc4648[v + 1] = c
    THEN CHOOSE v \in 0..63 : Rfc4648[v + 1] = c
    ELSE -1

RECURSIVE StdDecode(_)
StdDecode(chars) ==
  IF chars = <<>> THEN <<>>
  ELSE IF Len(chars) < 4 THEN <<-1>>
  ELSE LET v1 == ValueOf(chars[1])
           v2 == ValueOf(chars[2])
           v3 == ValueOf(chars[3])
           v4 == ValueOf(chars[4])
           rest == SubSeq(chars, 5, Len(chars))
       IN IF v1 < 0 \/ v2 < 0 THEN <<-1>>
          ELSE IF chars[3] = "=" /\ chars[4] = "="
            THEN IF rest = <<>> /\ v2 % 16 = 0
                   THEN <<v1 * 4 + v2 \div 16>>
                   ELSE <<-1>>
          ELSE IF v3 < 0 THEN <<-1>>
          ELSE IF chars[4] = "="
            THEN IF rest = <<>> /\ v3 % 4 = 0
                   THEN <<v1 * 4 + v2 \div 16, (v2 % 16) * 16 + v3 \div 4>>
                   ELSE <<-1>>
          ELSE IF v4 < 0 THEN <<-1>>
          ELSE LET tail == StdDecode(rest)
               IN IF tail = <<-1>> THEN <<-1>>
                  ELSE <<v1 * 4 + v2 \div 16, (v2 % 16) * 16 + v3 \div 4,
                         (v3 % 4) * 64 + v4>> \o tail

\* the number of '=' characters in a string
Pads(chars) == Cardinality({k \in 1..Len(chars) : chars[k] = "="})

\* C13: the string returned is the standard padded base64 of the bytes: 4
\* characters per group of 3 bytes (none for no bytes), '=' only as the last
\* character when 2 bytes remain and as the last two when 1 remains, and the
\* standard decoder gives the bytes back.
Base64IsStandard ==
  b64_ret = "ok" =>
    LET n == Len(data)
        m == Len(b64_result)
    IN /\ b64_result = StdEncode(data)
       /\ m = 4 * ((n + 2) \div 3)
       /\ Pads(b64_result) = (IF n % 3 = 2 THEN 1 ELSE IF n % 3 = 1 THEN 2 ELSE 0)
       /\ \A k \in 1..m : b64_result[k] = "=" => k > m - Pads(b64_result)
       /\ StdDecode(b64_result) = data

\* C13 witness: four bytes, the first encoding to '+', gave eight characters
\* ending in two '='.
FourBytesTwoPads ==
  /\ b64_ret = "ok"
  /\ Len(data) = 4
  /\ data[1] = 251
  /\ Len(b64_result) = 8
  /\ b64_result[1] = "+"
  /\ b64_result[6] # "="
  /\ b64_result[7] = "=" /\ b64_result[8] = "="

\* ---- properties of the window (SpecUi) ----------------------------------
ItemsOf(list) == {list[k] : k \in 1..Len(list)}

\* C14: no two items of the collection have the same id, and the collection
\* is empty or holds exactly the items the last load put there, each with the
\* id, path and thumbnail it was loaded with: reordering only moves them.
UniqueIdsOnlyPermuted ==
  /\ \A i, j \in 1..Len(ui_images) :
       ui_images[i].id = ui_images[j].id => i = j
  /\ \/ ui_images = <<>>
     \/ /\ Len(ui_images) = Len(last_loaded)
        /\ ItemsOf(ui_images) = ItemsOf(last_loaded)

\* C14 witness: the two items loaded are shown in the other order, and no
\* drag is pending.
LoadedPairSwapped ==
  /\ Len(ui_images) = 2
  /\ ui_images # last_loaded
  /\ ui_images[1] = last_loaded[2]
  /\ ui_images[2] = last_loaded[1]
  /\ ui_images[1].id = 1
  /\ drag_source = None

\* C15: an id once given to an item is not given to a different item by a
\* later load: when the blocking task of a load has numbered its items, none
\* of them has the id of an item of the previous load (whether that load is
\* still shown or was cleared) unless it is the same file.
IdsNeverReused ==
  load_pc = "loaded" =>
    \A new \in ItemsOf(image_items) :
      \A old \in ItemsOf(last_loaded) :
        new.id = old.id => new.path = old.path

PathsOf(list) == [k \in 1..Len(list) |-> list[k].path]

\* the paths of a selection that are readable images, in selection order
Decoded(paths) == SelectSeq(paths, LAMBDA q : create_thumbnail(q).ok)

\* C16: the list the blocking task returns holds exactly the selected paths
\* that decoded, in selection order, whatever failed before or after them;
\* and the step that ends the load shows that list when it has an item, and
\* otherwise leaves the collection alone and shows the error notification
\* "No valid images found".
LoadSkipsFailures ==
  /\ [](load_pc = "loaded" => PathsOf(image_items) = Decoded(file_paths))
  /\ [][(load_pc = "loaded" /\ load_pc' # "loaded") =>
          IF image_items = <<>>
            THEN /\ notification' =
                      <<[message |-> [text |-> "No valid images found", n |-> 0],
                         notification_type |-> "Error"]>>
                 /\ ui_images' = ui_images
            ELSE /\ ui_images' = image_items
                 /\ notification' # None
                 /\ notification'[1].notification_type = "Success"]_vars

\* C16 witness: three files were picked, the second failed, and the task
\* returned the first and the third as items 0 and 1.
MiddleFileSkipped ==
  /\ load_pc = "loaded"
  /\ file_paths = <<1, 2, 3>>
  /\ Len(image_items) = 2
  /\ image_items[1].id = 0 /\ image_items[1].path = 1
  /\ image_items[2].id = 1 /\ image_items[2].path = 3

\* ---- more properties of the export job (Spec) ---------------------------
\* the tokens sent so far, in the order the channel delivers them
Sent == results \o queue

\* C17: the tokens a worker has sent are, in channel order, one per item of
\* the head of its chunk in item order, each a success token exactly when the
\* split of that item returned Ok; an item is split at most once and only
\* after the items before it in the chunk; and when the job has returned the
\* scheduler has received one token per item of the job.
TokensFollowChunkOrder ==
  /\ \A w \in 1..Len(workers) :
       LET its == workers[w].items
           ids == {its[k].id : k \in 1..Len(its)}
           done == workers[w].idx
       IN /\ SelectSeq(Sent, LAMBDA t : t.item \in ids)
               = [k \in 1..done |->
                    [ok |-> fate[its[k].path] = "ok", item |-> its[k].id]]
          /\ \A k \in 1..Len(its) :
               attempts[its[k].id] =
                 IF k <= done THEN 1
                 ELSE IF k = done + 1 /\ workers[w].pc \in {"right", "send"} THEN 1
                 ELSE 0
  /\ Returned => (Len(results) = n_items /\ queue = <<>>)

\* C17 witness: the tokens of two chunks were received interleaved, the
\* second chunk's first, a failure token among them.
ChunksInterleaved ==
  /\ Returned
  /\ n_items = 5
  /\ results[1].item = images[4].id /\ results[1].ok
  /\ results[2].item = images[1].id /\ ~results[2].ok
  /\ results[3].item = images[5].id
  /\ results[4].item = images[2].id
  /\ results[5].item = images[3].id

\* ---- properties of the scheduled export job (FairSpec) ------------------
\* C18: every job, of any size, the empty one included, eventually returns:
\* the drain loop ends because the scheduler dropped its Sender before
\* draining and every worker drops its own when its closure ends.
JobEventuallyReturns == <>(spc = "done")

\* C18 witness: the scheduler is in the drain loop on an empty channel, all
\* tokens but the last received, and waits for the one worker still alive.
DrainWaitsForLastWorker ==
  /\ spc = "drain"
  /\ queue = <<>>
  /\ senders = 1
  /\ n_items = 4
  /\ Len(workers) = 2
  /\ Len(results) = 3
  /\ workers[1].pc = "done"
  /\ workers[2].pc = "left"

\* ---- more properties of set_jpeg_dpi (SpecDpi) --------------------------
\* the offsets, counted from 1, of the bytes of the segment at offset i:
\* its marker, its length field and the bytes the length field counts
SegmentBytes(b, i) == (i + 1)..(i + 2 + b[i + 3] * 256 + b[i + 4])

\* C19: when the call patched in place (Ok, same length), every byte that
\* changed is the units byte or one of the four density bytes of the first
\* APP0/JFIF segment before Start-Of-Scan, inside that segment; the bytes of
\* the other segments and from Start-Of-Scan on are as they were.
OnlyFirstJfifFieldsChange ==
  (ret = "ok" /\ Len(buf) = Len(orig)) =>
    /\ JfifSegments(orig) # {}
    /\ LET i == FirstOf(JfifSegments(orig))
       IN \A k \in 1..Len(orig) :
            buf[k] # orig[k] =>
              /\ k \in (i + 12)..(i + 16)
              /\ k \in SegmentBytes(orig, i)

\* ---- more properties of the window (SpecUi) -----------------------------
\* C20: from the click on RENAME & SPLIT until the export is over, the list
\* kept for the job, and once the folder is picked the list given to
\* process_images_sync, is the collection as it was at the click, item for
\* item in that order, whatever reordering the collection has seen since.
ExportUsesOrderAtClick ==
  /\ export_pc \in {"dialog", "running"} =>
       /\ at_click # <<>>
       /\ imgs_snap = at_click
  /\ export_pc = "running" =>
       /\ Len(imgs_for_bg) = Len(at_click)
       /\ \A p \in 1..Len(at_click) : imgs_for_bg[p] = at_click[p]

\* C20 witness: the job runs on the order of the click, first loaded item
\* first, while the collection shows the two items the other way round.
ReorderedWhileRunning ==
  /\ export_pc = "running"
  /\ processing
  /\ Len(ui_images) = 2
  /\ ui_images[1].id = 1 /\ ui_images[2].id = 0
  /\ imgs_for_bg[1].id = 0 /\ imgs_for_bg[2].id = 1
  /\ at_click = imgs_for_bg

\* ---- properties of the buttons and the flags (SpecUi) --------------------
\* a step that shows this notification through show_notification with a timer
Shows(text) ==
  /\ timers' = timers + 1
  /\ notification' # None
  /\ notification'[1].message.text = text

\* C21: at most one export is in flight and no load or clear runs beside it:
\* processing is true exactly from an export request on a non-empty
\* collection until its outcome or the cancelled dialog is reported,
\* loading_files exactly while a load is under way, and never both; an
\* export, a load or a clear only starts while neither flag is set; an
\* export asked for on an empty collection sets no flag and starts no job.
OneExportNoLoadBeside ==
  /\ [](/\ processing <=> export_pc \in {"dialog", "running"}
        /\ loading_files <=> load_pc # "idle"
        /\ ~(processing /\ loading_files))
  /\ [][/\ Shows("Selecting save location...") =>
             /\ ~processing /\ ~loading_files
             /\ ui_images # <<>>
             /\ processing' /\ export_pc' = "dialog"
        /\ (loading_files' /\ ~loading_files) => ~processing
        /\ Shows("Cleared all images") => ~processing /\ ~loading_files
        /\ Shows("No images to process") =>
             /\ ui_images = <<>>
             /\ ~processing /\ ~loading_files
             /\ ~processing' /\ export_pc' = "idle"
        /\ (ui_images = <<>> /\ ~processing) => ~processing']_vars

\* C21 witness: an export of two items runs with its flag set, no load is
\* under way, and a timer of an earlier notification is still asleep.
ExportInFlightAlone ==
  /\ export_pc = "running"
  /\ processing
  /\ ~loading_files
  /\ load_pc = "idle"
  /\ Len(imgs_for_bg) = 2
  /\ timers >= 1

\* ---- properties of the scheduled window (FairSpecUi) ---------------------
\* C22: every export request that set processing is followed by processing
\* being false again, whichever way the export ends, and every load request
\* that set loading_files is followed by loading_files being false again.
FlagsEventuallyCleared ==
  /\ processing ~> ~processing
  /\ loading_files ~> ~loading_files

\* C22 witness: the blocking task of an export did not join; the failure is
\* reported and processing is false again.
JoinFailureReported ==
  /\ ~processing
  /\ export_pc = "idle"
  /\ notification # None
  /\ notification[1].message.text = "Processing task failed: {}"
  /\ ui_images # <<>>

\* ---- properties of the notification timers (SpecUi) ----------------------
\* a task of show_notification wakes up and clears a displayed notification
TimerClears ==
  /\ timers' = timers - 1
  /\ notification # None
  /\ notification' = None

\* the displayed notification started a timer, and it is the only one asleep:
\* every timer sleeps the same 3 seconds, so timers wake in the order they
\* were started, and the one of the displayed notification is the newest
OwnTimerNext ==
  /\ timers = 1
  /\ notification # None
  /\ notification[1].notification_type # "Processing"

\* C23: a timer clears only the notification it was started for, so the
\* "Processing images..." notification, which starts none, is displayed for
\* as long as the export runs.
TimerClearsOnlyItsOwn ==
  /\ [][TimerClears => OwnTimerNext]_vars
  /\ [](export_pc = "running" =>
          /\ notification # None
          /\ notification[1].notification_type = "Processing")

====
